---------------------------- MODULE Spec2Model ----------------------------
(* A model of the Huffman file compressor: the chained hash table of      *)
(* hashmap.cpp, the bit streams of bitstream.h, the codec of util.h and   *)
(* the menu driver.  Bytes are integers 0..255, text is a sequence of     *)
(* character codes, a codeword is a sequence over {0,1} standing for the  *)
(* characters '0' and '1'.                                                *)
EXTENDS Integers, Sequences, FiniteSets, TLC

VARIABLES
  charSigned,    \* whether plain char is signed on the platform of the build
  frequencyMap,  \* go(): the frequency table of the menu
  encodingTree,  \* go(): the encoding tree of the menu
  encodingMap,   \* go(): the encoding map of the menu
  source,        \* go(): filename and isFile, with the bytes they name and
                 \* whether choice 5 has taken the extension off filename
  disk,          \* the .huf container file last written
  ret,           \* what the last operation returned or how it ended
  made           \* history: the inputs each object of the menu was made from,
                 \* and the key/value pairs the calls of put were made with

vars == << charSigned, frequencyMap, encodingTree, encodingMap, source, disk, ret, made >>

(***************************************************************************)
(* Bounds of the model.                                                    *)
(***************************************************************************)
\* longest input file handed to compress
MaxLen == 5
\* number of distinct byte values that occur in input files
NumBytes == 2

\* longest file or string given to choice 1 of the menu
MenuLen == 3
\* most bytes a damaged .huf file has lost at its end
MaxCut == 3
\* number of keys and of values the calls of put are made with
NumKeys == 3
NumValues == 2
\* longest input of a scan of the table harness
ScanLen == 1
\* bits written with writeBit after a header
MaxBits == 9
\* header texts written before the bits
NumHeaders == 2
\* bytes after the header of a .huf file that compress did not write
PayloadLen == 2

\* the byte values input files are made of: 'a', 0xE4 (a byte above 127,
\* in the bucket of 256), 'g' (in the bucket of 256), newline
ByteAt == << 97, 228, 103, 10 >>
Alphabet == {ByteAt[i] : i \in 1..NumBytes}

\* the keys put: the marker 256, the key of the char 0xE4 where char is
\* signed (in the bucket of 256), 'a', newline
KeyAt == << 256, -28, 97, 10 >>
ValueAt == << 1, 12, 3 >>
PutKeys == {KeyAt[i] : i \in 1..NumKeys}
PutValues == {ValueAt[i] : i \in 1..NumValues}

SeqsUpTo(S, n) == UNION {[1..k -> S] : k \in 0..n}

\* a local variable: Rest is the code that follows the assignment of e
With(e, Rest(_)) == Rest(e)

\* a loop over the elements of s from index i on: acc is the state of the
\* loop, Body one iteration; each iteration is evaluated before the next
RECURSIVE Loop(_, _, _, _)
Loop(Body(_, _), acc, s, i) ==
  IF i > Len(s) THEN acc
  ELSE With(Body(acc, s[i]),
            LAMBDA nxt : IF nxt = nxt THEN Loop(Body, nxt, s, i + 1) ELSE acc)

(***************************************************************************)
(* Program constants.                                                      *)
(***************************************************************************)
nBuckets == 10
PSEUDO_EOF == 256
NOT_A_CHAR == 257
NUM_BITS_IN_BYTE == 8
EOF == -1
\* the multiplier 0x45d9f3b of hashFunction, as two 16-bit halves
HashMulHi == 1117
HashMulLo == 40763

(***************************************************************************)
(* 32-bit unsigned arithmetic on pairs <<high half, low half>>.            *)
(***************************************************************************)
W16 == 65536

RECURSIVE BitXor(_, _, _)
BitXor(a, b, n) ==
  IF n = 0 THEN 0
  ELSE (((a % 2) + (b % 2)) % 2) + 2 * BitXor(a \div 2, b \div 2, n - 1)

Xor16(a, b) == BitXor(a, b, 16)

\* low and high halves of the product of two 16-bit numbers
MulParts(a, b) ==
  With((a \div 256) * b, LAMBDA p1 :
  With(((a % 256) * b) + (p1 % 256) * 256, LAMBDA s :
    [lo |-> s % W16, hi |-> (s \div W16) + (p1 \div 256)]))

\* (x * 0x45d9f3b) mod 2^32
MulMagic(x) ==
  With(MulParts(x[2], HashMulLo), LAMBDA ll :
    << (ll.hi + MulParts(x[1], HashMulLo).lo + MulParts(x[2], HashMulHi).lo) % W16,
       ll.lo >>)

\* the two's complement image of a C++ int
ToU32(i) == << (i \div W16) % W16, i % W16 >>

\* input >> 16 on a signed int (arithmetic shift), as an unsigned image
Sar16(i) == << IF i < 0 THEN W16 - 1 ELSE 0, (i \div W16) % W16 >>

\* temp >> 16 on an unsigned int
Shr16(x) == << 0, x[1] >>

Xor32(x, y) == << Xor16(x[1], y[1]), Xor16(x[2], y[2]) >>

\* hashmap::hashFunction.  For the one input whose hash is the least int,
\* hash *= -1 overflows and the value stays as it is.
hashFunction(input) ==
  With(MulMagic(Xor32(Sar16(input), ToU32(input))), LAMBDA t1 :
  With(MulMagic(Xor32(Shr16(t1), t1)), LAMBDA t2 :
  With(Xor32(Shr16(t2), t2), LAMBDA t3 :
    IF t3 = << 32768, 0 >>
      THEN -(32768 * W16)
    ELSE IF t3[1] >= 32768
      THEN (W16 - 1 - t3[1]) * W16 + (W16 - t3[2])
      ELSE t3[1] * W16 + t3[2])))

(***************************************************************************)
(* hashmap: an array of nBuckets chains of key/value pairs.                *)
(***************************************************************************)
\* hashmap::createBucketArray
createBucketArray(n) == [i \in 0..(n - 1) |-> << >>]

\* hashmap::hashmap()
NewHashmap == [buckets |-> createBucketArray(nBuckets), nElems |-> 0]

\* bucketChoice % nBuckets: the buckets of the keys a char or a marker can
\* give are computed once
BucketTable == [k \in -128..257 |-> hashFunction(k) % nBuckets]

BucketOf(key) ==
  IF key \in DOMAIN BucketTable THEN BucketTable[key] ELSE hashFunction(key) % nBuckets

\* index of the first pair of a chain that holds key, 0 when there is none
RECURSIVE FindFrom(_, _, _)
FindFrom(chain, key, i) ==
  IF i > Len(chain) THEN 0
  ELSE IF chain[i].key = key THEN i
  ELSE FindFrom(chain, key, i + 1)

FindInChain(chain, key) == FindFrom(chain, key, 1)

\* a put that leaves the value of a key already present as it is
putKeepsOld(h, key, value) ==
  With(BucketOf(key), LAMBDA b :
  With(h.buckets[b], LAMBDA chain :
    IF FindInChain(chain, key) # 0 THEN h
    ELSE [buckets |-> [h.buckets EXCEPT ![b] = Append(chain, [key |-> key, value |-> value])],
          nElems  |-> h.nElems + 1]))

\* a put that counts a new key only when its bucket was empty
putCountsFirst(h, key, value) ==
  With(BucketOf(key), LAMBDA b :
  With(h.buckets[b], LAMBDA chain :
  With(FindInChain(chain, key), LAMBDA i :
    IF chain = << >>
      THEN [buckets |-> [h.buckets EXCEPT ![b] = << [key |-> key, value |-> value] >>],
            nElems  |-> h.nElems + 1]
    ELSE IF i # 0
      THEN [h EXCEPT !.buckets[b][i].value = value]
    ELSE [buckets |-> [h.buckets EXCEPT ![b] = Append(chain, [key |-> key, value |-> value])],
          nElems  |-> h.nElems])))

\* a put that links a new pair in at the front of its chain
putAtFront(h, key, value) ==
  With(BucketOf(key), LAMBDA b :
  With(h.buckets[b], LAMBDA chain :
  With(FindInChain(chain, key), LAMBDA i :
    IF i # 0
      THEN [h EXCEPT !.buckets[b][i].value = value]
      ELSE [buckets |-> [h.buckets EXCEPT ![b] = << [key |-> key, value |-> value] >> \o chain],
            nElems  |-> h.nElems + 1])))

\* hashmap::put
put(h, key, value) ==
  With(BucketOf(key), LAMBDA b :
  With(h.buckets[b], LAMBDA chain :
  With(FindInChain(chain, key), LAMBDA i :
    IF chain = << >>
      THEN [buckets |-> [h.buckets EXCEPT ![b] = << [key |-> key, value |-> value] >>],
            nElems  |-> h.nElems + 1]
    ELSE IF i # 0
      THEN [h EXCEPT !.buckets[b][i].value = value]
    ELSE [buckets |-> [h.buckets EXCEPT ![b] = Append(chain, [key |-> key, value |-> value])],
          nElems  |-> h.nElems + 1])))

\* hashmap::get: thrown is TRUE when the C-string is thrown, otherwise
\* value is what the call returns
get(h, key) ==
  With(h.buckets[BucketOf(key)], LAMBDA chain :
  With(FindInChain(chain, key), LAMBDA i :
    IF chain = << >> THEN [thrown |-> TRUE, value |-> 0]
    ELSE IF i # 0 THEN [thrown |-> FALSE, value |-> chain[i].value]
    ELSE [thrown |-> FALSE, value |-> 0]))

\* hashmap::containsKey
containsKey(h, key) == FindInChain(h.buckets[BucketOf(key)], key) # 0

\* hashmap::keys: bucket by bucket, each chain front to back
RECURSIVE KeysFrom(_, _)
RECURSIVE FirstKeysFrom(_, _)
KeysFrom(h, b) ==
  IF b >= nBuckets THEN << >>
  ELSE [i \in 1..Len(h.buckets[b]) |-> h.buckets[b][i].key] \o KeysFrom(h, b + 1)

\* a keys that takes only the first pair of each chain
FirstKeysFrom(h, b) ==
  IF b >= nBuckets THEN << >>
  ELSE (IF h.buckets[b] = << >> THEN << >> ELSE << h.buckets[b][1].key >>)
       \o FirstKeysFrom(h, b + 1)

keysFirstOfChain(h) == FirstKeysFrom(h, 0)

keys(h) == KeysFrom(h, 0)

\* hashmap::size
size(h) == h.nElems

(***************************************************************************)
(* Huffman tree.  Nodes live in an arena (the heap of the program): a      *)
(* HuffmanNode* is an index into the sequence of nodes, 0 is nullptr.      *)
(***************************************************************************)
NullPtr == 0

HuffmanNode(character, count, zero, one) ==
  [character |-> character, count |-> count, zero |-> zero, one |-> one]

\* a comparison that puts the largest count on top
prioritizeLess(nodes, lhs, rhs) == nodes[lhs].count < nodes[rhs].count

\* prioritize::operator()
prioritize(nodes, lhs, rhs) == nodes[lhs].count > nodes[rhs].count

\* element i of a vector, counted from 0 as the heap algorithms do
At(v, i) == v[i + 1]
SetAt(v, i, x) == [v EXCEPT ![i + 1] = x]

\* the sift-up of std::push_heap
RECURSIVE PushHeap(_, _, _, _, _)
PushHeap(nodes, v, holeIndex, topIndex, value) ==
  With((holeIndex - 1) \div 2, LAMBDA parent :
    IF holeIndex > topIndex /\ prioritize(nodes, At(v, parent), value)
      THEN PushHeap(nodes, SetAt(v, holeIndex, At(v, parent)), parent, topIndex, value)
      ELSE SetAt(v, holeIndex, value))

\* the sift-down of std::pop_heap: the hole moves down to a leaf along the
\* children that come first, then the value is sifted up from there
RECURSIVE AdjustDown(_, _, _, _, _)
AdjustDown(nodes, v, holeIndex, secondChild, len) ==
  IF secondChild < (len - 1) \div 2
    THEN With(2 * (secondChild + 1), LAMBDA sc :
         With(IF prioritize(nodes, At(v, sc), At(v, sc - 1)) THEN sc - 1 ELSE sc,
              LAMBDA sc2 :
           AdjustDown(nodes, SetAt(v, holeIndex, At(v, sc2)), sc2, sc2, len)))
    ELSE IF len % 2 = 0 /\ secondChild = (len - 2) \div 2
      THEN With(2 * (secondChild + 1), LAMBDA sc :
             [v |-> SetAt(v, holeIndex, At(v, sc - 1)), hole |-> sc - 1])
      ELSE [v |-> v, hole |-> holeIndex]

AdjustHeap(nodes, v, len, value) ==
  With(AdjustDown(nodes, v, 0, 0, len), LAMBDA d :
    PushHeap(nodes, d.v, d.hole, 0, value))

\* priority_queue::push
pqPush(nodes, pq, x) ==
  With(Append(pq, x), LAMBDA v : PushHeap(nodes, v, Len(v) - 1, 0, x))

\* priority_queue::top
pqTop(pq) == pq[1]

\* priority_queue::pop
pqPop(nodes, pq) ==
  With(Len(pq), LAMBDA n :
    IF n > 1
      THEN SubSeq(AdjustHeap(nodes, SetAt(pq, n - 1, At(pq, 0)), n - 1, At(pq, n - 1)),
                  1, n - 1)
      ELSE SubSeq(pq, 1, n - 1))

\* one iteration of the loop of build_htree
MergeStep(t) ==
  With(pqTop(t.pq), LAMBDA first :
  With(pqPop(t.nodes, t.pq), LAMBDA pq1 :
  With(pqTop(pq1), LAMBDA second :
  With(pqPop(t.nodes, pq1), LAMBDA pq2 :
  With(HuffmanNode(NOT_A_CHAR, t.nodes[first].count + t.nodes[second].count,
                   first, second), LAMBDA link :
  With(Append(t.nodes, link), LAMBDA nodes2 :
    [nodes |-> nodes2, pq |-> pqPush(nodes2, pq2, Len(nodes2)),
     merges |-> t.merges + 1]))))))

\* a build_htree that stops when two nodes are left
RECURSIVE build_htreeStopsAtTwo(_)
build_htreeStopsAtTwo(t) ==
  IF Len(t.pq) > 2 THEN build_htreeStopsAtTwo(MergeStep(t)) ELSE t

\* build_htree
RECURSIVE build_htree(_)
build_htree(t) ==
  IF Len(t.pq) > 1 THEN build_htree(MergeStep(t)) ELSE t

\* one iteration of the loop of buildEncodingTree: a leaf for the key e
PushLeaf(map, t, e) ==
  With(HuffmanNode(e, get(map, e).value, NullPtr, NullPtr), LAMBDA hnode :
  With(Append(t.nodes, hnode), LAMBDA nodes2 :
    [t EXCEPT !.nodes = nodes2, !.pq = pqPush(nodes2, t.pq, Len(nodes2))]))

\* the priority queue and the nodes after the loop of buildEncodingTree
LeafQueue(map) ==
  Loop(LAMBDA t, e : PushLeaf(map, t, e),
       [nodes |-> << >>, pq |-> << >>, merges |-> 0], keys(map), 1)

\* the priority queue and the nodes when buildEncodingTree returns
BuildQueue(map) == build_htree(LeafQueue(map))

\* buildEncodingTree: the arena and the root pointer.  top() of an empty
\* queue is undefined; the tree is then marked undefined.
buildEncodingTree(map) ==
  With(BuildQueue(map), LAMBDA t :
    IF t.pq = << >>
      THEN [nodes |-> << >>, root |-> NullPtr, undefined |-> TRUE, freed |-> FALSE]
      ELSE [nodes |-> t.nodes, root |-> pqTop(t.pq), undefined |-> FALSE, freed |-> FALSE])

\* a _buildEncodingMap that inserts a pair at every node, leaf or not
RECURSIVE buildEncodingMapRecAll(_, _, _)
buildEncodingMapRecAll(nodes, node, str) ==
  (IF nodes[node].zero # NullPtr
     THEN buildEncodingMapRecAll(nodes, nodes[node].zero, Append(str, 0)) ELSE << >>)
  \o (IF nodes[node].one # NullPtr
        THEN buildEncodingMapRecAll(nodes, nodes[node].one, Append(str, 1)) ELSE << >>)
  \o << [key |-> nodes[node].character, code |-> str] >>

\* _buildEncodingMap: the pairs inserted, in the order of the insert calls
RECURSIVE buildEncodingMapRec(_, _, _)
buildEncodingMapRec(nodes, node, str) ==
  LET zeroPart == IF nodes[node].zero # NullPtr
                    THEN buildEncodingMapRec(nodes, nodes[node].zero, Append(str, 0))
                    ELSE << >>
      onePart  == IF nodes[node].one # NullPtr
                    THEN buildEncodingMapRec(nodes, nodes[node].one, Append(str, 1))
                    ELSE << >>
      own      == IF nodes[node].character # NOT_A_CHAR
                    THEN << [key |-> nodes[node].character, code |-> str] >>
                    ELSE << >>
  IN  zeroPart \o onePart \o own

\* unordered_map::insert: a key already present keeps its codeword
MapInsert(m, pair) ==
  IF pair.key \in DOMAIN m THEN m
  ELSE [k \in DOMAIN m \cup {pair.key} |-> IF k = pair.key THEN pair.code ELSE m[k]]

EmptyMap == [k \in {} |-> << >>]

\* a buildEncodingMap that gives the leaf of a one-node tree the codeword 0
buildEncodingMapRootBit(tree) ==
  IF tree.nodes[tree.root].zero = NullPtr /\ tree.nodes[tree.root].one = NullPtr
    THEN [k \in {tree.nodes[tree.root].character} |-> << 0 >>]
    ELSE Loop(MapInsert, EmptyMap, buildEncodingMapRec(tree.nodes, tree.root, << >>), 1)

\* buildEncodingMap
buildEncodingMap(tree) ==
  Loop(MapInsert, EmptyMap, buildEncodingMapRec(tree.nodes, tree.root, << >>), 1)

(***************************************************************************)
(* Characters.                                                             *)
(***************************************************************************)
\* int(c) for the char c that holds byte b
IntOfChar(b) == IF charSigned /\ b >= 128 THEN b - 256 ELSE b

\* the byte stored for char(i)
ByteOfInt(i) == i % 256

(***************************************************************************)
(* Frequency analysis.                                                     *)
(***************************************************************************)
\* char_to_hash, c given as int(c)
char_to_hash(c, h) ==
  IF containsKey(h, c) THEN put(h, c, get(h, c).value + 1) ELSE put(h, c, 1)

\* buildFrequencyMap: bytes is the content of the file (read with
\* fs.get(c) until it fails) or the string itself (for(char c: filename))
buildFrequencyMap(bytes, isFile, map) ==
  put(IF isFile
        THEN Loop(LAMBDA h, b : char_to_hash(IntOfChar(b), h), map, bytes, 1)
        ELSE Loop(LAMBDA h, c : char_to_hash(IntOfChar(c), h), map, bytes, 1),
      PSEUDO_EOF, 1)

(***************************************************************************)
(* Output streams: buf is the file, p the put position.                    *)
(***************************************************************************)
\* obitstream::obitstream
NewObitstream ==
  [buf |-> << >>, p |-> 0, lastTell |-> 0, curByte |-> 0, pos |-> NUM_BITS_IN_BYTE]

\* ostream::put
streamPut(o, byte) ==
  [o EXCEPT !.buf = IF o.p < Len(o.buf) THEN [o.buf EXCEPT ![o.p + 1] = byte]
                                         ELSE Append(o.buf, byte),
            !.p = o.p + 1]

\* ostream << text
streamWrite(o, chars) == Loop(streamPut, o, chars, 1)

RECURSIVE Pow2(_)
Pow2(n) == IF n = 0 THEN 1 ELSE 2 * Pow2(n - 1)

\* a reader that counts bit positions from the top of the byte
GetNthBitFromTop(n, fromByte) ==
  IF (fromByte \div Pow2(NUM_BITS_IN_BYTE - 1 - n)) % 2 # 0 THEN 1 ELSE 0

\* GetNthBit
GetNthBit(n, fromByte) == IF (fromByte \div Pow2(n)) % 2 # 0 THEN 1 ELSE 0

\* a writer that counts bit positions from the top of the byte
SetNthBitFromTop(n, inByte) ==
  IF (inByte \div Pow2(NUM_BITS_IN_BYTE - 1 - n)) % 2 # 0 THEN inByte
  ELSE inByte + Pow2(NUM_BITS_IN_BYTE - 1 - n)

\* SetNthBit
SetNthBit(n, inByte) ==
  IF (inByte \div Pow2(n)) % 2 # 0 THEN inByte ELSE inByte + Pow2(n)

\* a writeBit that never seeks back before it puts the byte
writeBitNoSeek(o, bit) ==
  With(o.lastTell # o.p \/ o.pos = NUM_BITS_IN_BYTE, LAMBDA fresh :
  With(IF fresh THEN 0 ELSE o.pos, LAMBDA pos0 :
  With(IF fresh THEN 0 ELSE o.curByte, LAMBDA cur0 :
  With(IF bit # 0 THEN SetNthBit(pos0, cur0) ELSE cur0, LAMBDA cur1 :
  With(IF pos0 = 0 \/ bit # 0
         THEN streamPut(o, ByteOfInt(cur1))
         ELSE o, LAMBDA o1 :
    [o1 EXCEPT !.curByte = cur1, !.pos = pos0 + 1, !.lastTell = o1.p])))))

\* obitstream::writeBit, fake mode off
writeBit(o, bit) ==
  With(o.lastTell # o.p \/ o.pos = NUM_BITS_IN_BYTE, LAMBDA fresh :
  With(IF fresh THEN 0 ELSE o.pos, LAMBDA pos0 :
  With(IF fresh THEN 0 ELSE o.curByte, LAMBDA cur0 :
  With(IF bit # 0 THEN SetNthBit(pos0, cur0) ELSE cur0, LAMBDA cur1 :
  With(IF pos0 = 0 \/ bit # 0
         THEN streamPut([o EXCEPT !.p = IF pos0 # 0 THEN o.p - 1 ELSE o.p],
                        ByteOfInt(cur1))
         ELSE o, LAMBDA o1 :
    [o1 EXCEPT !.curByte = cur1, !.pos = pos0 + 1, !.lastTell = o1.p])))))

\* the loop of encode that writes the characters of encoded as bits
writeBits(o, bits) == Loop(writeBit, o, bits, 1)

(***************************************************************************)
(* Input streams: buf is the file, g the get position.                     *)
(***************************************************************************)
\* ibitstream::ibitstream over an opened file
NewIbitstream(bytes) ==
  [buf |-> bytes, g |-> 0, eofbit |-> FALSE, failbit |-> FALSE,
   lastTell |-> 0, curByte |-> 0, pos |-> NUM_BITS_IN_BYTE]

\* istream::get(): the stream afterwards and the int returned
streamGet(in) ==
  IF ~in.eofbit /\ ~in.failbit /\ in.g < Len(in.buf)
    THEN [in |-> [in EXCEPT !.g = in.g + 1], c |-> in.buf[in.g + 1]]
    ELSE [in |-> [in EXCEPT !.eofbit = TRUE, !.failbit = TRUE], c |-> EOF]

\* istream::tellg
tellg(in) == IF in.failbit THEN -1 ELSE in.g

\* istream::eof
streamEof(in) == in.eofbit

\* ibitstream::readBit, fake mode off
readBit(in) ==
  IF in.lastTell # tellg(in) \/ in.pos = NUM_BITS_IN_BYTE
    THEN With(streamGet(in), LAMBDA r :
           IF r.c = EOF
             THEN [in |-> [r.in EXCEPT !.curByte = EOF], bit |-> EOF]
             ELSE [in  |-> [r.in EXCEPT !.curByte = r.c, !.pos = 1,
                                        !.lastTell = tellg(r.in)],
                   bit |-> GetNthBit(0, r.c)])
    ELSE [in |-> [in EXCEPT !.pos = in.pos + 1], bit |-> GetNthBit(in.pos, in.curByte)]

(***************************************************************************)
(* The header: the text form of a hashmap.                                 *)
(***************************************************************************)
ChOpen == 123
ChClose == 125
ChColon == 58
ChComma == 44
ChSpace == 32
ChMinus == 45
ChPlus == 43
ChZero == 48

RECURSIVE FormatNat(_)
FormatNat(n) ==
  IF n < 10 THEN << ChZero + n >> ELSE Append(FormatNat(n \div 10), ChZero + (n % 10))

\* an output of int that drops the sign
FormatIntNoSign(n) == IF n < 0 THEN FormatNat(-n) ELSE FormatNat(n)

\* ostream << int
FormatInt(n) == IF n < 0 THEN << ChMinus >> \o FormatNat(-n) ELSE FormatNat(n)

RECURSIVE FormatEntries(_, _, _)
FormatEntries(h, k, i) ==
  IF i > Len(k) THEN << >>
  ELSE FormatInt(k[i]) \o << ChColon >> \o FormatInt(get(h, k[i]).value)
       \o (IF i < Len(k) THEN << ChComma, ChSpace >> ELSE << >>)
       \o FormatEntries(h, k, i + 1)

\* operator<<(ostream, hashmap): the characters written
HeaderText(myMap) == << ChOpen >> \o FormatEntries(myMap, keys(myMap), 1) \o << ChClose >>

IsDigit(c) == c >= ChZero /\ c <= ChZero + 9
\* isspace in the C locale
IsSpace(c) == c = ChSpace \/ (c >= 9 /\ c <= 13)

RECURSIVE SkipSpace(_, _)
SkipSpace(str, i) ==
  IF i <= Len(str) /\ IsSpace(str[i]) THEN SkipSpace(str, i + 1) ELSE i

RECURSIVE ReadDigits(_, _, _)
ReadDigits(str, i, acc) ==
  IF i <= Len(str) /\ IsDigit(str[i])
    THEN ReadDigits(str, i + 1, 10 * acc + (str[i] - ChZero))
    ELSE acc

\* std::stoi: ok is FALSE when std::invalid_argument is thrown
stoi(str) ==
  With(SkipSpace(str, 1), LAMBDA i0 :
  With(i0 <= Len(str) /\ str[i0] = ChMinus, LAMBDA neg :
  With(IF i0 <= Len(str) /\ (str[i0] = ChMinus \/ str[i0] = ChPlus) THEN i0 + 1 ELSE i0,
       LAMBDA i1 :
    IF i1 <= Len(str) /\ IsDigit(str[i1])
      THEN [ok |-> TRUE,
            value |-> IF neg THEN -ReadDigits(str, i1, 0) ELSE ReadDigits(str, i1, 0)]
      ELSE [ok |-> FALSE, value |-> 0])))

\* string::find(":"): 0 stands for npos
RECURSIVE FindColon(_, _)
FindColon(str, i) ==
  IF i > Len(str) THEN 0 ELSE IF str[i] = ChColon THEN i ELSE FindColon(str, i + 1)

\* the two substr calls of operator>> on one "key:value" item; with no colon
\* pos + 1 wraps to 0 and the second substring is all but the last character
ItemKeyText(nextInput) ==
  With(FindColon(nextInput, 1), LAMBDA pos :
    IF pos = 0 THEN nextInput ELSE SubSeq(nextInput, 1, pos - 1))

ItemValueText(nextInput) ==
  With(FindColon(nextInput, 1), LAMBDA pos :
    IF pos = 0 THEN SubSeq(nextInput, 1, Len(nextInput) - 1)
    ELSE SubSeq(nextInput, pos + 1, Len(nextInput)))

\* the inner loop of operator>>: characters up to ',' or '}'.  At the end
\* of the stream get() keeps returning EOF and the loop never exits.
RECURSIVE ReadItem(_)
ReadItem(it) ==
  IF it.nextChar = ChComma \/ it.nextChar = ChClose THEN it
  ELSE IF it.nextChar = EOF THEN [it EXCEPT !.runaway = TRUE]
  ELSE With(streamGet(it.in), LAMBDA r :
         ReadItem([in |-> r.in, nextChar |-> r.c,
                   nextInput |-> Append(it.nextInput, ByteOfInt(it.nextChar)),
                   runaway |-> FALSE]))

\* the outer loop of operator>>
RECURSIVE ReadItems(_, _, _)
ReadItems(in, nextChar, myMap) ==
  With(ReadItem([in |-> in, nextChar |-> nextChar, nextInput |-> << >>,
                 runaway |-> FALSE]), LAMBDA item :
  With(streamGet(streamGet(item.in).in), LAMBDA nxt :
  With(item.nextChar # ChComma, LAMBDA done :
  With(IF done THEN item.in ELSE nxt.in, LAMBDA in2 :
  With(stoi(ItemKeyText(item.nextInput)), LAMBDA k :
  With(stoi(ItemValueText(item.nextInput)), LAMBDA v :
    IF item.runaway
      THEN [kind |-> "runaway", map |-> myMap, in |-> item.in]
    ELSE IF item.nextInput # << >> /\ (~k.ok \/ ~v.ok)
      THEN [kind |-> "invalid_argument", map |-> myMap, in |-> in2]
    ELSE With(IF item.nextInput # << >> THEN put(myMap, k.value, v.value) ELSE myMap,
              LAMBDA map2 :
           IF done THEN [kind |-> "ok", map |-> map2, in |-> in2]
           ELSE ReadItems(in2, nxt.c, map2))))))))

\* operator>>(istream, hashmap)
ReadHeader(in, myMap) ==
  With(streamGet(streamGet(in).in), LAMBDA nxt : ReadItems(nxt.in, nxt.c, myMap))

(***************************************************************************)
(* Encoder and decoder.                                                    *)
(***************************************************************************)
\* unordered_map::operator[]: an absent key is inserted with the empty string
MapIndex(m, k) ==
  IF k \in DOMAIN m THEN m ELSE [j \in DOMAIN m \cup {k} |-> IF j = k THEN << >> ELSE m[j]]

\* an iteration that adds one to size for each symbol
EncodeSymbolCountsSymbols(e, c) ==
  With(MapIndex(e.encodingMap, c), LAMBDA m :
    [encoded |-> e.encoded \o m[c], size |-> e.size + 1, encodingMap |-> m])

\* one iteration of the read loop of encode, for the symbol c
EncodeSymbol(e, c) ==
  With(MapIndex(e.encodingMap, c), LAMBDA m :
    [encoded |-> e.encoded \o m[c], size |-> e.size + Len(m[c]), encodingMap |-> m])

\* encode: the string returned, size, and the map and the sink afterwards
encode(input, encodingMap0, output, size0, makeFile) ==
  With(EncodeSymbol(Loop(LAMBDA e, b : EncodeSymbol(e, IntOfChar(b)),
                         [encoded |-> << >>, size |-> size0, encodingMap |-> encodingMap0],
                         input, 1),
                    PSEUDO_EOF), LAMBDA e1 :
    [encoded |-> e1.encoded, size |-> e1.size, encodingMap |-> e1.encodingMap,
     output |-> IF makeFile THEN writeBits(output, e1.encoded) ELSE output])

\* an iteration that reads a bit before it looks at the node
DecodeStepReadsOn(tree, d) ==
  IF d.node = NullPtr THEN [d EXCEPT !.done = TRUE, !.undefined = TRUE]
  ELSE With(tree.nodes[d.node].character, LAMBDA ch :
       With(ch # NOT_A_CHAR, LAMBDA isLeaf :
       With(IF isLeaf THEN tree.root ELSE d.node, LAMBDA node1 :
       With(readBit(d.in), LAMBDA r :
         IF isLeaf /\ ch = PSEUDO_EOF
           THEN [d EXCEPT !.in = r.in, !.done = TRUE, !.sawEnd = TRUE]
           ELSE [in |-> r.in,
                 node |-> IF r.bit = 0 THEN tree.nodes[node1].zero
                                       ELSE tree.nodes[node1].one,
                 decoded |-> IF isLeaf THEN Append(d.decoded, ByteOfInt(ch))
                                       ELSE d.decoded,
                 done |-> FALSE, undefined |-> FALSE, sawEnd |-> FALSE]))))

\* one iteration of the loop of decode on d = the stream, the current node
\* and the string decoded so far.  undefined: a null node was dereferenced.
\* sawEnd: the leaf of 256 was reached (the caller cannot see this).
DecodeStep(tree, d) ==
  IF d.node = NullPtr THEN [d EXCEPT !.done = TRUE, !.undefined = TRUE]
  ELSE With(tree.nodes[d.node].character, LAMBDA ch :
       With(ch # NOT_A_CHAR, LAMBDA isLeaf :
       With(IF isLeaf THEN tree.root ELSE d.node, LAMBDA node1 :
       With(readBit(d.in), LAMBDA r :
         IF isLeaf /\ ch = PSEUDO_EOF
           THEN [d EXCEPT !.done = TRUE, !.sawEnd = TRUE]
           ELSE [in |-> r.in,
                 node |-> IF r.bit = 0 THEN tree.nodes[node1].zero
                                       ELSE tree.nodes[node1].one,
                 decoded |-> IF isLeaf THEN Append(d.decoded, ByteOfInt(ch))
                                       ELSE d.decoded,
                 done |-> FALSE, undefined |-> FALSE, sawEnd |-> FALSE]))))

\* the loop of decode
RECURSIVE DecodeLoop(_, _)
DecodeLoop(tree, d) ==
  IF d.done \/ streamEof(d.in) THEN d ELSE DecodeLoop(tree, DecodeStep(tree, d))

\* decode: the string returned (also what is written to output)
decode(input, tree) ==
  DecodeLoop(tree, [in |-> input, node |-> tree.root, decoded |-> << >>,
                    done |-> FALSE, undefined |-> FALSE, sawEnd |-> FALSE])

(***************************************************************************)
(* compress and decompress.                                                *)
(***************************************************************************)
\* compress: the string returned and the bytes of the .huf file
compress(bytes) ==
  With(buildFrequencyMap(bytes, TRUE, NewHashmap), LAMBDA frequency :
  With(buildEncodingTree(frequency), LAMBDA tree :
  With(buildEncodingMap(tree), LAMBDA map :
  With(streamWrite(NewObitstream, HeaderText(frequency)), LAMBDA output :
  With(encode(bytes, map, output, 0, TRUE), LAMBDA e :
    [encoded |-> e.encoded, file |-> e.output.buf])))))

\* decompress: how the call ends and the string it returns
decompress(file) ==
  With(ReadHeader(NewIbitstream(file), NewHashmap), LAMBDA h :
  With(buildEncodingTree(h.map), LAMBDA tree :
  With(decode(h.in, tree), LAMBDA d :
    IF h.kind # "ok" THEN [kind |-> h.kind, decoded |-> << >>, sawEnd |-> FALSE]
    ELSE IF tree.undefined \/ d.undefined
      THEN [kind |-> "undefined", decoded |-> << >>, sawEnd |-> FALSE]
    ELSE [kind |-> "return", decoded |-> d.decoded, sawEnd |-> d.sawEnd])))

(***************************************************************************)
(* The state of the program.                                               *)
(***************************************************************************)
\* HuffmanNode* encodingTree = nullptr
NullTree == [nodes |-> << >>, root |-> NullPtr, undefined |-> FALSE, freed |-> FALSE]

NoFile == [written |-> FALSE, src |-> << >>, file |-> << >>, headerLen |-> 0,
           damage |-> "none"]

Ret(op, kind, value, input, sawEnd) ==
  [op |-> op, kind |-> kind, value |-> value, input |-> input, sawEnd |-> sawEnd]

\* the record of the calls put(key, value): the last value put for each key
RefPut(m, key, value) == [j \in DOMAIN m \cup {key} |-> IF j = key THEN value ELSE m[j]]

NothingMade == [table |-> << >>, tree |-> << >>, map |-> << >>, file |-> << >>,
                puts |-> [k \in {} |-> 0]]

InitProgram(inputs) ==
  /\ charSigned \in BOOLEAN
  /\ frequencyMap = NewHashmap
  /\ encodingTree = NullTree
  /\ encodingMap = EmptyMap
  /\ source \in [isFile : {TRUE}, bytes : inputs, stripped : {FALSE}]
  /\ disk = NoFile
  /\ ret = Ret("start", "return", << >>, << >>, FALSE)
  /\ made = NothingMade

(***************************************************************************)
(* go(): the choices C and D on the file named source, and what can happen *)
(* to the .huf file between them.                                          *)
(***************************************************************************)
\* choice C: compress(filename)
Compress ==
  \E c \in {compress(source.bytes)} :
    /\ disk' = [written |-> TRUE, src |-> source.bytes, file |-> c.file,
                headerLen |-> Len(HeaderText(buildFrequencyMap(source.bytes, TRUE, NewHashmap))),
                damage |-> "none"]
    /\ ret' = Ret("compress", "return", c.encoded, source.bytes, FALSE)
    /\ UNCHANGED << charSigned, frequencyMap, encodingTree, encodingMap, source, made >>

\* the .huf file loses its last n bytes
CutShort(n) ==
  /\ disk.written /\ disk.damage = "none" /\ n <= Len(disk.file)
  /\ disk' = [disk EXCEPT !.file = SubSeq(disk.file, 1, Len(disk.file) - n),
                          !.damage = "cut"]
  /\ ret' = Ret("cut", "return", << >>, << >>, FALSE)
  /\ UNCHANGED << charSigned, frequencyMap, encodingTree, encodingMap, source, made >>

\* the header of the .huf file loses the space at i
LoseSpace(i) ==
  /\ disk.written /\ disk.damage = "none" /\ i <= disk.headerLen
  /\ disk.file[i] = ChSpace
  /\ disk' = [disk EXCEPT !.file = SubSeq(disk.file, 1, i - 1)
                                     \o SubSeq(disk.file, i + 1, Len(disk.file)),
                          !.damage = "lost"]
  /\ ret' = Ret("lost", "return", << >>, << >>, FALSE)
  /\ UNCHANGED << charSigned, frequencyMap, encodingTree, encodingMap, source, made >>

\* choice D: decompress(filename) on the .huf file as it is
Decompress ==
  /\ disk.written
  /\ \E d \in {decompress(disk.file)} :
       ret' = Ret("decompress", d.kind, d.decoded, disk.file, d.sawEnd)
  /\ UNCHANGED << charSigned, frequencyMap, encodingTree, encodingMap, source, disk, made >>

Init == InitProgram(SeqsUpTo(Alphabet, MaxLen))

Next ==
  \/ Compress
  \/ \E n \in 1..MaxCut : CutShort(n)
  \/ \E i \in 1..Len(disk.file) : LoseSpace(i)
  \/ Decompress

Spec == Init /\ [][Next]_vars

(***************************************************************************)
(* do123456(): the choices 1 to 6 of the menu.  A file is known by its     *)
(* content; no file has the name that choice 5 leaves in filename.  A call *)
(* with undefined behaviour, an exception nobody catches and a loop that   *)
(* never exits end the run.                                                *)
(***************************************************************************)
Halts == {"undefined", "runaway", "invalid_argument", "out_of_range"}

Running == ret.kind \notin Halts

\* the pointer is to a tree that exists
TreeUsable(tree) == tree.root # NullPtr /\ ~tree.undefined /\ ~tree.freed

\* choice 1: cin >> filename, then buildFrequencyMap into the table of the
\* menu; the table is scanned once in a run
Menu1(isFile, bytes) ==
  /\ Running /\ made.table = << >>
  /\ source' = [isFile |-> isFile, bytes |-> bytes, stripped |-> FALSE]
  /\ frequencyMap' = buildFrequencyMap(bytes, isFile, frequencyMap)
  /\ made' = [made EXCEPT !.table = Append(@, bytes)]
  /\ ret' = Ret("1", "return", << >>, << >>, FALSE)
  /\ UNCHANGED << charSigned, encodingTree, encodingMap, disk >>

\* choice 2: encodingTree = buildEncodingTree(frequencyMap)
Menu2 ==
  /\ Running
  /\ \E tree \in {buildEncodingTree(frequencyMap)} :
       /\ encodingTree' = tree
       /\ ret' = Ret("2", IF tree.undefined THEN "undefined" ELSE "return",
                     << >>, << >>, FALSE)
  /\ made' = [made EXCEPT !.tree = made.table]
  /\ UNCHANGED << charSigned, frequencyMap, encodingMap, source, disk >>

\* choice 3: encodingMap = buildEncodingMap(encodingTree)
Menu3 ==
  /\ Running
  /\ IF TreeUsable(encodingTree)
       THEN /\ encodingMap' = buildEncodingMap(encodingTree)
            /\ made' = [made EXCEPT !.map = made.tree]
            /\ ret' = Ret("3", "return", << >>, << >>, FALSE)
       ELSE /\ ret' = Ret("3", "undefined", << >>, << >>, FALSE)
            /\ UNCHANGED << encodingMap, made >>
  /\ UNCHANGED << charSigned, frequencyMap, encodingTree, source, disk >>

\* choice 4: the table and the encoded file go to filename + ".huf".
\* ret.input is the file read and the encoding map as it was.
Menu4 ==
  /\ Running
  /\ IF ~source.isFile
       THEN /\ ret' = Ret("4", "refused", << >>, << >>, FALSE)
            /\ UNCHANGED << encodingMap, disk, made >>
       ELSE \E bytes \in {IF source.stripped THEN << >> ELSE source.bytes} :
            \E e \in {encode(bytes, encodingMap,
                             streamWrite(NewObitstream, HeaderText(frequencyMap)),
                             0, TRUE)} :
              /\ encodingMap' = e.encodingMap
              /\ IF source.stripped
                   THEN UNCHANGED << disk, made >>
                   ELSE /\ disk' = [written |-> TRUE, src |-> bytes, file |-> e.output.buf,
                                    headerLen |-> Len(HeaderText(frequencyMap)),
                                    damage |-> "none"]
                        /\ made' = [made EXCEPT !.file = made.map]
              /\ ret' = Ret("4", "return", e.encoded,
                            [bytes |-> bytes, map |-> encodingMap], FALSE)
  /\ UNCHANGED << charSigned, frequencyMap, encodingTree, source >>

\* choice 5: the table at the top of filename + ".huf" is read into dump,
\* the rest is decoded with the tree of the menu; filename loses its
\* extension, and with none substr throws
Menu5 ==
  /\ Running
  /\ IF ~source.isFile
       THEN /\ ret' = Ret("5", "refused", << >>, << >>, FALSE)
            /\ UNCHANGED source
     ELSE IF source.stripped
       THEN /\ ret' = Ret("5", "out_of_range", << >>, << >>, FALSE)
            /\ UNCHANGED source
     ELSE /\ source' = [source EXCEPT !.stripped = TRUE]
          /\ \E file \in {IF disk.written THEN disk.file ELSE << >>} :
             \E h \in {ReadHeader(NewIbitstream(file), NewHashmap)} :
               IF h.kind # "ok"
                 THEN ret' = Ret("5", h.kind, << >>, file, FALSE)
               ELSE IF encodingTree.undefined \/ encodingTree.freed
                 THEN ret' = Ret("5", "undefined", << >>, file, FALSE)
               ELSE \E d \in {decode(h.in, encodingTree)} :
                      ret' = Ret("5", IF d.undefined THEN "undefined" ELSE "return",
                                 d.decoded, file, d.sawEnd)
  /\ UNCHANGED << charSigned, frequencyMap, encodingTree, encodingMap, disk, made >>

\* choice 6: freeTree(encodingTree); the pointer keeps its value
Menu6 ==
  /\ Running
  /\ IF encodingTree.root = NullPtr /\ ~encodingTree.undefined
       THEN /\ ret' = Ret("6", "return", << >>, << >>, FALSE)
            /\ UNCHANGED encodingTree
     ELSE IF TreeUsable(encodingTree)
       THEN /\ ret' = Ret("6", "return", << >>, << >>, FALSE)
            /\ encodingTree' = [encodingTree EXCEPT !.freed = TRUE]
     ELSE /\ ret' = Ret("6", "undefined", << >>, << >>, FALSE)
          /\ UNCHANGED encodingTree
  /\ UNCHANGED << charSigned, frequencyMap, encodingMap, source, disk, made >>

\* cin >> filename gives a string with at least one character
MenuSources ==
  [isFile : {TRUE}, bytes : SeqsUpTo(Alphabet, MenuLen)]
    \cup [isFile : {FALSE}, bytes : SeqsUpTo(Alphabet, MenuLen) \ {<< >>}]

InitMenu == InitProgram({<< >>})

NextMenu ==
  \/ \E s \in MenuSources : Menu1(s.isFile, s.bytes)
  \/ Menu2
  \/ Menu3
  \/ Menu4
  \/ Menu5
  \/ Menu6

SpecMenu == InitMenu /\ [][NextMenu]_vars

(***************************************************************************)
(* The hashmap and the functions of util.h that take one, called on a      *)
(* table in any order.  ret.input is the table the call was made on.       *)
(***************************************************************************)
\* hashmap::put, on a table not yet scanned
TablePut(k, v) ==
  /\ made.table = << >>
  /\ frequencyMap' = put(frequencyMap, k, v)
  /\ ret' = Ret("put", "return", << >>, << >>, FALSE)
  /\ made' = [made EXCEPT !.puts = RefPut(@, k, v)]
  /\ UNCHANGED << charSigned, encodingTree, encodingMap, source, disk >>

\* hashmap::get
TableGet(k) ==
  /\ \E r \in {get(frequencyMap, k)} :
       ret' = Ret("get", IF r.thrown THEN "throw" ELSE "return",
                  [key |-> k, value |-> r.value], frequencyMap, FALSE)
  /\ UNCHANGED << charSigned, frequencyMap, encodingTree, encodingMap, source, disk, made >>

\* buildFrequencyMap on the table as it is, once
TableScan(bytes, isFile) ==
  /\ made.table = << >>
  /\ frequencyMap' = buildFrequencyMap(bytes, isFile, frequencyMap)
  /\ ret' = Ret("scan", "return", bytes, frequencyMap, FALSE)
  /\ made' = [made EXCEPT !.table = Append(@, bytes)]
  /\ UNCHANGED << charSigned, encodingTree, encodingMap, source, disk >>

\* operator<< of the table into a string stream
TableWrite ==
  /\ ret' = Ret("write", "return", HeaderText(frequencyMap), frequencyMap, FALSE)
  /\ UNCHANGED << charSigned, frequencyMap, encodingTree, encodingMap, source, disk, made >>

\* operator>> of the text written into a fresh table
TableRead ==
  /\ ret.op = "write"
  /\ \E r \in {ReadHeader(NewIbitstream(ret.value), NewHashmap)} :
       ret' = Ret("read", r.kind, r.map, ret.input, FALSE)
  /\ UNCHANGED << charSigned, frequencyMap, encodingTree, encodingMap, source, disk, made >>

\* buildEncodingTree of the table, then buildEncodingMap of the tree;
\* ret.value holds also the number of merges made and the priority queue
\* as build_htree left it
TableTree ==
  /\ \E tree \in {buildEncodingTree(frequencyMap)} :
     \E t \in {BuildQueue(frequencyMap)} :
       ret' = Ret("tree", IF tree.undefined THEN "undefined" ELSE "return",
                  [tree |-> tree,
                   map  |-> IF tree.undefined THEN EmptyMap ELSE buildEncodingMap(tree),
                   merges |-> t.merges, pq |-> t.pq],
                  frequencyMap, FALSE)
  /\ UNCHANGED << charSigned, frequencyMap, encodingTree, encodingMap, source, disk, made >>

InitTable == InitProgram({<< >>})

NextTable ==
  \/ \E k \in PutKeys, v \in PutValues : TablePut(k, v)
  \/ \E k \in PutKeys : TableGet(k)
  \/ \E bytes \in SeqsUpTo(Alphabet, ScanLen), isFile \in BOOLEAN : TableScan(bytes, isFile)
  \/ TableWrite
  \/ TableRead
  \/ TableTree

SpecTable == InitTable /\ [][NextTable]_vars

(***************************************************************************)
(* The functions of util.h that compress and decompress call, one call at  *)
(* a time on the file named source.  ret.value holds what the call gave    *)
(* back, ret.input what it was called on.                                  *)
(***************************************************************************)
\* buildFrequencyMap(filename, true, frequency) on a new table
CodecAnalyze ==
  /\ ret.op = "start"
  /\ frequencyMap' = buildFrequencyMap(source.bytes, TRUE, NewHashmap)
  /\ ret' = Ret("analyze", "return", << >>, source.bytes, FALSE)
  /\ UNCHANGED << charSigned, encodingTree, encodingMap, source, disk, made >>

\* buildEncodingTree(frequency): ret.value is the number of merges made and
\* the priority queue as build_htree left it
CodecTree ==
  /\ ret.op = "analyze"
  /\ \E t \in {BuildQueue(frequencyMap)} :
       /\ encodingTree' = buildEncodingTree(frequencyMap)
       /\ ret' = Ret("buildTree", "return", [merges |-> t.merges, pq |-> t.pq],
                     frequencyMap, FALSE)
  /\ UNCHANGED << charSigned, frequencyMap, encodingMap, source, disk, made >>

\* buildEncodingMap(encodingTree)
CodecMap ==
  /\ ret.op = "buildTree"
  /\ encodingMap' = buildEncodingMap(encodingTree)
  /\ ret' = Ret("buildMap", "return", << >>, << >>, FALSE)
  /\ UNCHANGED << charSigned, frequencyMap, encodingTree, source, disk, made >>

\* output << frequency, then encode(fs, encodingMap, output, size, makeFile)
\* with size = 0
CodecEncode(makeFile) ==
  /\ ret.op = "buildMap"
  /\ \E header \in {HeaderText(frequencyMap)} :
     \E e \in {encode(source.bytes, encodingMap, streamWrite(NewObitstream, header),
                      0, makeFile)} :
       /\ encodingMap' = e.encodingMap
       /\ disk' = [written |-> TRUE, src |-> source.bytes, file |-> e.output.buf,
                   headerLen |-> Len(header), damage |-> "none"]
       /\ ret' = Ret("encode", "return",
                     [encoded |-> e.encoded, size |-> e.size, makeFile |-> makeFile],
                     [bytes |-> source.bytes, map |-> encodingMap], FALSE)
  /\ UNCHANGED << charSigned, frequencyMap, encodingTree, source, made >>

\* bs >> frequency, then decode(bs, encodingTree, os): ret.value holds the
\* stream as decode got it and as decode left it
CodecDecode ==
  /\ ret.op = "encode"
  /\ \E h \in {ReadHeader(NewIbitstream(disk.file), NewHashmap)} :
     \E d \in {decode(h.in, encodingTree)} :
       ret' = Ret("decode", IF d.undefined THEN "undefined" ELSE "return",
                  [decoded |-> d.decoded, before |-> h.in, after |-> d.in,
                   encoded |-> ret.value.encoded, makeFile |-> ret.value.makeFile],
                  disk.file, d.sawEnd)
  /\ UNCHANGED << charSigned, frequencyMap, encodingTree, encodingMap, source, disk, made >>

InitCodec == InitProgram(SeqsUpTo(Alphabet, MaxLen))

NextCodec ==
  \/ CodecAnalyze
  \/ CodecTree
  \/ CodecMap
  \/ \E makeFile \in BOOLEAN : CodecEncode(makeFile)
  \/ CodecDecode

SpecCodec == InitCodec /\ [][NextCodec]_vars

(***************************************************************************)
(* The header grammar of the container format:                             *)
(*   '{' [ int ':' int { ', ' int ':' int } ] '}'   with int = ['-'] digits *)
(***************************************************************************)
RECURSIVE GrammarFrom(_, _, _)
GrammarFrom(str, i, st) ==
  IF i > Len(str) THEN FALSE
  ELSE LET c == str[i]
       IN  CASE st = "open"   -> c = ChOpen /\ GrammarFrom(str, i + 1, "first")
             [] st = "first"  -> \/ c = ChClose
                                 \/ c = ChMinus /\ GrammarFrom(str, i + 1, "keysign")
                                 \/ IsDigit(c) /\ GrammarFrom(str, i + 1, "key")
             [] st = "entry"  -> \/ c = ChMinus /\ GrammarFrom(str, i + 1, "keysign")
                                 \/ IsDigit(c) /\ GrammarFrom(str, i + 1, "key")
             [] st = "keysign" -> IsDigit(c) /\ GrammarFrom(str, i + 1, "key")
             [] st = "key"    -> \/ IsDigit(c) /\ GrammarFrom(str, i + 1, "key")
                                 \/ c = ChColon /\ GrammarFrom(str, i + 1, "colon")
             [] st = "colon"  -> \/ c = ChMinus /\ GrammarFrom(str, i + 1, "valsign")
                                 \/ IsDigit(c) /\ GrammarFrom(str, i + 1, "val")
             [] st = "valsign" -> IsDigit(c) /\ GrammarFrom(str, i + 1, "val")
             [] st = "val"    -> \/ IsDigit(c) /\ GrammarFrom(str, i + 1, "val")
                                 \/ c = ChComma /\ GrammarFrom(str, i + 1, "comma")
                                 \/ c = ChClose
             [] st = "comma"  -> c = ChSpace /\ GrammarFrom(str, i + 1, "entry")

\* the bytes start with a header of the grammar
HeaderWellFormed(bytes) == GrammarFrom(bytes, 1, "open")

\* the ways operator>> can report a failure to its caller
HeaderFailureKinds == {"MalformedHeader", "invalid_argument", "out_of_range"}

(***************************************************************************)
(* Properties of compress and decompress.                                  *)
(***************************************************************************)
\* C1: decompress of the container that compress wrote for the bytes X
\* returns exactly X.
C1_ContainerRoundTrip ==
  (ret.op = "decompress" /\ disk.damage = "none")
    => (ret.kind = "return" /\ ret.value = disk.src)

\* an input with a byte above 127 and a payload of two bytes came back
C1_Witness ==
  /\ ret.op = "decompress" /\ disk.damage = "none"
  /\ ret.value = disk.src
  /\ \E i \in 1..Len(disk.src) : disk.src[i] >= 128
  /\ Len(disk.file) - disk.headerLen >= 2

\* C3: when the bits run out before the leaf of 256 is reached, decompress
\* reports TruncatedPayload instead of returning the partial output.
C3_TruncatedPayloadReported ==
  (/\ ret.op = "decompress" /\ ret.input = disk.file
   /\ disk.damage = "cut" /\ Len(disk.file) >= disk.headerLen
   /\ ~ret.sawEnd)
    => ret.kind = "TruncatedPayload"

\* C10: reading header bytes that are not of the header grammar ends with a
\* failure reported to the caller.
C10_MalformedHeaderReported ==
  (ret.op = "decompress" /\ ~HeaderWellFormed(ret.input))
    => ret.kind \in HeaderFailureKinds

(***************************************************************************)
(* Properties of encode and decode as the menu calls them.                 *)
(***************************************************************************)
\* the table, the tree, the map and the .huf file were made from the file
\* the menu holds, in this order, and the tree is still there
OwnCodec ==
  /\ source.isFile
  /\ made.table = << disk.src >> /\ made.tree = made.table
  /\ made.map = made.tree /\ made.file = made.map
  /\ disk.written /\ disk.src = source.bytes
  /\ TreeUsable(encodingTree)

\* the symbols encode reads from a file, with the marker of the end
SymbolsOf(bytes) == {IntOfChar(bytes[i]) : i \in 1..Len(bytes)} \cup {PSEUDO_EOF}

\* C2: decode of the bits encode wrote for the bytes X, with the tree
\* built from the frequency table of X and the map built from that tree,
\* returns exactly X.
C2_CodecRoundTrip ==
  (ret.op = "5" /\ ret.kind # "refused" /\ ret.kind # "out_of_range" /\ OwnCodec)
    => (ret.kind = "return" /\ ret.value = disk.src)

\* a file of three bytes, one of them above 127, came back
C2_Witness ==
  /\ ret.op = "5" /\ OwnCodec
  /\ ret.kind = "return" /\ ret.value = disk.src
  /\ Len(disk.src) = 3
  /\ \E i \in 1..3 : \E j \in 1..3 : disk.src[i] >= 128 /\ disk.src[j] < 128

\* C9: encode of a symbol that has no entry in the encoding map ends with
\* the failure UnencodableSymbol.
C9_UnmappedSymbolFails ==
  (/\ ret.op = "4" /\ ret.kind # "refused"
   /\ \E c \in SymbolsOf(ret.input.bytes) : c \notin DOMAIN ret.input.map)
    => ret.kind = "UnencodableSymbol"

(***************************************************************************)
(* Properties of the table and of the tree built from it.                  *)
(***************************************************************************)
\* the key/value pairs a table holds
Pairs(h) ==
  UNION {{<< h.buckets[b][i].key, h.buckets[b][i].value >> : i \in 1..Len(h.buckets[b])}
         : b \in DOMAIN h.buckets}

PairKeys(h) == {p[1] : p \in Pairs(h)}

\* the leaves below a node, left to right
RECURSIVE Leaves(_, _)
Leaves(nodes, node) ==
  IF node = NullPtr THEN << >>
  ELSE IF nodes[node].zero = NullPtr /\ nodes[node].one = NullPtr THEN << nodes[node] >>
  ELSE Leaves(nodes, nodes[node].zero) \o Leaves(nodes, nodes[node].one)

IsPrefix(a, b) == Len(a) <= Len(b) /\ SubSeq(b, 1, Len(a)) = a

\* C4: after buildFrequencyMap the table holds the key 256 with count 1,
\* whatever the input and whatever the table held before.
C4_EndMarkerCountOne ==
  ret.op = "scan" => {p \in Pairs(frequencyMap) : p[1] = PSEUDO_EOF} = {<< PSEUDO_EOF, 1 >>}

\* a scan of a non-empty input into a table that held 256 with count 12
C4_Witness ==
  /\ ret.op = "scan" /\ ret.value # << >>
  /\ << PSEUDO_EOF, 12 >> \in Pairs(ret.input)
  /\ << PSEUDO_EOF, 1 >> \in Pairs(frequencyMap)

\* C5: the codewords buildEncodingMap records for a tree of
\* buildEncodingTree are prefix-free.
C5_PrefixFree ==
  (ret.op = "tree" /\ ret.kind = "return")
    => \A a \in DOMAIN ret.value.map : \A b \in DOMAIN ret.value.map :
         a # b => ~IsPrefix(ret.value.map[a], ret.value.map[b])

\* a map of three codewords of two different lengths
C5_Witness ==
  /\ ret.op = "tree" /\ ret.kind = "return"
  /\ Cardinality(DOMAIN ret.value.map) = 3
  /\ \E a \in DOMAIN ret.value.map : \E b \in DOMAIN ret.value.map :
       Len(ret.value.map[a]) = 1 /\ Len(ret.value.map[b]) = 2

\* C6: the tree of a non-empty table has one leaf for each key of the
\* table, with the key and its count, and no other leaf; the encoding map
\* has one codeword for each key.
C6_OneLeafPerKey ==
  (ret.op = "tree" /\ Pairs(ret.input) # {})
    => /\ ret.kind = "return"
       /\ \E lv \in {Leaves(ret.value.tree.nodes, ret.value.tree.root)} :
            /\ Len(lv) = Cardinality(Pairs(ret.input))
            /\ {<< lv[i].character, lv[i].count >> : i \in 1..Len(lv)} = Pairs(ret.input)
       /\ DOMAIN ret.value.map = PairKeys(ret.input)

\* a tree of three keys, two of them in one bucket, with different counts
C6_Witness ==
  /\ ret.op = "tree" /\ ret.kind = "return"
  /\ PairKeys(ret.input) = {PSEUDO_EOF, -28, 97}
  /\ << 97, 12 >> \in Pairs(ret.input)
  /\ Len(Leaves(ret.value.tree.nodes, ret.value.tree.root)) = 3

\* C7: operator>> into a fresh table of the text operator<< wrote for a
\* table gives a table with the same key/value pairs.
C7_HeaderRoundTrip ==
  ret.op = "read" => (ret.kind = "ok" /\ Pairs(ret.value) = Pairs(ret.input))

\* a table with a negative key and a count of two digits was read back
C7_Witness ==
  /\ ret.op = "read" /\ ret.kind = "ok"
  /\ Pairs(ret.value) = Pairs(ret.input)
  /\ Cardinality(Pairs(ret.input)) >= 2
  /\ \E p \in Pairs(ret.input) : p[1] < 0
  /\ \E p \in Pairs(ret.input) : p[2] = 12

\* C8: get of a key the table does not hold ends with a failure, it does
\* not return a value.
C8_GetAbsentKeyFails ==
  (ret.op = "get" /\ ret.value.key \notin PairKeys(ret.input)) => ret.kind # "return"

(***************************************************************************)
(* Properties of the bit streams and of the keys of a scanned table.       *)
(***************************************************************************)
\* the bytes of the .huf file that follow the header
Payload == SubSeq(disk.file, disk.headerLen + 1, Len(disk.file))

\* bit i of a byte, i counted from the most significant bit
MsbBit(byte, i) == (byte \div Pow2(NUM_BITS_IN_BYTE - 1 - i)) % 2

\* bit k (from 1) of a sequence of bytes, each byte taken from its top bit
MsbBitOf(bytes, k) ==
  MsbBit(bytes[((k - 1) \div NUM_BITS_IN_BYTE) + 1], (k - 1) % NUM_BITS_IN_BYTE)

\* what n calls of readBit return
RECURSIVE readBits(_, _)
readBits(in, n) ==
  IF n = 0 THEN << >>
  ELSE With(readBit(in), LAMBDA r : << r.bit >> \o readBits(r.in, n - 1))

\* C11: the i-th bit written with writeBit into a byte is at bit position
\* 7 - i of that byte, and readBit returns the bits of a byte from the most
\* significant one down.
C11_MsbFirstPacking ==
  ret.op = "compress"
    => /\ \A k \in 1..Len(ret.value) : MsbBitOf(Payload, k) = ret.value[k]
       /\ readBits(NewIbitstream(Payload), NUM_BITS_IN_BYTE * Len(Payload))
            = [k \in 1..(NUM_BITS_IN_BYTE * Len(Payload)) |-> MsbBitOf(Payload, k)]

\* C12: every key of a table that buildFrequencyMap filled from empty is a
\* byte value 0..255 or the marker 256.
C12_KeysAreSymbols ==
  (ret.op = "scan" /\ Pairs(ret.input) = {})
    => \A k \in PairKeys(frequencyMap) : k \in 0..PSEUDO_EOF

(***************************************************************************)
(* Properties of the calls compress and decompress make, one by one.       *)
(***************************************************************************)
\* the bytes are n >= 1 copies of one byte value
SingleByteRun(bytes) == Len(bytes) >= 1 /\ \A i \in 1..Len(bytes) : bytes[i] = bytes[1]

\* C13: for an input of n >= 1 copies of the byte b the table is
\* {b:n, 256:1}, the tree has two leaves, the codewords of b and of 256
\* have length 1 and encode counts n + 1 bits.
C13_SingleByteRun ==
  (ret.op = "encode" /\ SingleByteRun(source.bytes))
    => /\ Pairs(frequencyMap) = {<< source.bytes[1], Len(source.bytes) >>, << PSEUDO_EOF, 1 >>}
       /\ Len(Leaves(encodingTree.nodes, encodingTree.root)) = 2
       /\ Len(encodingMap[source.bytes[1]]) = 1
       /\ Len(encodingMap[PSEUDO_EOF]) = 1
       /\ ret.value.size = Len(source.bytes) + 1

\* C14: for the empty input the table is {256:1}, the tree is built with no
\* merge and is the one leaf 256, the map gives 256 the empty codeword,
\* encode produces no bit, and decode returns the empty output at the leaf
\* of 256 without reading a bit.
C14_EmptyInput ==
  source.bytes = << >>
    => /\ ret.op # "start" => Pairs(frequencyMap) = {<< PSEUDO_EOF, 1 >>}
       /\ ret.op = "buildTree"
            => /\ ret.value.merges = 0
               /\ encodingTree.nodes = << HuffmanNode(PSEUDO_EOF, 1, NullPtr, NullPtr) >>
               /\ encodingTree.root = 1
       /\ ret.op = "buildMap" => encodingMap = [k \in {PSEUDO_EOF} |-> << >>]
       /\ ret.op = "encode"
            => ret.value.encoded = << >> /\ ret.value.size = 0 /\ Payload = << >>
       /\ ret.op = "decode"
            => /\ ret.kind = "return" /\ ret.sawEnd
               /\ ret.value.decoded = << >>
               /\ ret.value.after = ret.value.before

\* the empty file went through all the calls, decode included
C14_Witness ==
  /\ source.bytes = << >> /\ ret.op = "decode" /\ ret.sawEnd
  /\ ret.value.makeFile
  /\ encodingMap = [k \in {PSEUDO_EOF} |-> << >>]
  /\ ret.value.after = ret.value.before

\* the codewords of the symbols of bytes from index i on, then that of 256
RECURSIVE CodewordsOf(_, _, _)
CodewordsOf(bytes, map, i) ==
  IF i > Len(bytes) THEN map[PSEUDO_EOF]
  ELSE map[IntOfChar(bytes[i])] \o CodewordsOf(bytes, map, i + 1)

\* C16: when every symbol of the source has an entry in the encoding map,
\* encode returns the codewords of the symbols read, in source order, then
\* the codeword of 256; size, 0 on entry, is the length of that string;
\* the string is the same with makeFile true and false.
C16_EncodeConcatenates ==
  (ret.op = "encode" /\ SymbolsOf(ret.input.bytes) \subseteq DOMAIN ret.input.map)
    => /\ ret.value.encoded = CodewordsOf(ret.input.bytes, ret.input.map, 1)
       /\ ret.value.size = Len(ret.value.encoded)

\* an encode with makeFile false of three bytes with codewords of two lengths
C16_Witness ==
  /\ ret.op = "encode" /\ ~ret.value.makeFile
  /\ Len(ret.input.bytes) = 3
  /\ SymbolsOf(ret.input.bytes) \subseteq DOMAIN ret.input.map
  /\ \E a \in DOMAIN ret.input.map : \E b \in DOMAIN ret.input.map :
       Len(ret.input.map[a]) = 1 /\ Len(ret.input.map[b]) = 2
  /\ ret.value.size = Len(ret.value.encoded) /\ ret.value.size >= 5

\* the number of bits readBit gave between two states of a stream
BitsConsumed(before, after) ==
  IF after.g = before.g THEN 0
  ELSE (after.g - before.g - 1) * NUM_BITS_IN_BYTE + after.pos

\* the bits of the last payload byte that encode did not write
PadBits == NUM_BITS_IN_BYTE * Len(Payload) - Len(ret.value.encoded)

\* C17: when decode reaches the leaf of 256 it returns; it has read the
\* bits encode wrote and none of the pad bits, and has emitted no byte
\* beyond the source.
C17_StopsAtEndMarker ==
  (ret.op = "decode" /\ ret.sawEnd)
    => /\ ret.kind = "return"
       /\ BitsConsumed(ret.value.before, ret.value.after) = Len(ret.value.encoded)
       /\ ~ret.value.after.eofbit
       /\ ret.value.decoded = disk.src

\* a payload of two bytes with seven pad bits was decoded up to the marker
C17_Witness ==
  /\ ret.op = "decode" /\ ret.sawEnd /\ ret.value.makeFile
  /\ Len(Payload) = 2 /\ PadBits = 7
  /\ ret.value.decoded = disk.src /\ Len(disk.src) >= 3

(***************************************************************************)
(* Properties of the hashmap against the record of the calls of put.       *)
(***************************************************************************)
\* the keys looked up: those put, and two that are never put, one of them
\* ('g') in the bucket of 256
ProbeKeys == {KeyAt[i] : i \in 1..Len(KeyAt)} \cup {103}

\* C15: after any sequence of put(k, v) on a new hashmap, containsKey(k)
\* is true exactly for the keys put, get(k) returns the value last put for
\* k, size() is the number of distinct keys put and keys() lists each of
\* them once.
C15_TableMatchesReference ==
  made.table = << >>
    => /\ \A k \in ProbeKeys : containsKey(frequencyMap, k) <=> k \in DOMAIN made.puts
       /\ \A k \in DOMAIN made.puts :
            get(frequencyMap, k) = [thrown |-> FALSE, value |-> made.puts[k]]
       /\ size(frequencyMap) = Cardinality(DOMAIN made.puts)
       /\ \E ks \in {keys(frequencyMap)} :
            /\ Len(ks) = Cardinality(DOMAIN made.puts)
            /\ {ks[i] : i \in 1..Len(ks)} = DOMAIN made.puts

\* three keys were put, two of them in one bucket, one put a second time
\* with another value
C15_Witness ==
  /\ made.table = << >> /\ ret.op = "put"
  /\ DOMAIN made.puts = {PSEUDO_EOF, -28, 97}
  /\ made.puts[-28] = 12 /\ made.puts[PSEUDO_EOF] = 1
  /\ get(frequencyMap, -28).value = 12
  /\ size(frequencyMap) = 3

(***************************************************************************)
(* Properties of the merges of build_htree.                                *)
(***************************************************************************)
\* the states of the loop of build_htree from t on, one per test of the
\* loop condition
RECURSIVE MergeStates(_)
MergeStates(t) ==
  IF Len(t.pq) > 1 THEN << t >> \o MergeStates(MergeStep(t)) ELSE << t >>

\* the nodes a priority queue holds
QueueSet(pq) == {pq[i] : i \in 1..Len(pq)}

\* one merge, from the state t of the loop to the state u
MergeOk(t, u) ==
  \E link \in {u.nodes[Len(u.nodes)]} :
    /\ Len(u.nodes) = Len(t.nodes) + 1
    /\ SubSeq(u.nodes, 1, Len(t.nodes)) = t.nodes
    /\ link.character = NOT_A_CHAR
    /\ link.zero = pqTop(t.pq)
    /\ link.one \in QueueSet(t.pq) \ {link.zero}
    /\ \A x \in QueueSet(t.pq) : t.nodes[link.zero].count <= t.nodes[x].count
    /\ \A x \in QueueSet(t.pq) \ {link.zero} : t.nodes[link.one].count <= t.nodes[x].count
    /\ link.count = t.nodes[link.zero].count + t.nodes[link.one].count
    /\ Len(u.pq) = Len(t.pq) - 1
    /\ QueueSet(u.pq) = (QueueSet(t.pq) \ {link.zero, link.one}) \cup {Len(u.nodes)}

\* the sum of the values of a set of key/value pairs
RECURSIVE SumOfPairs(_)
SumOfPairs(S) ==
  IF S = {} THEN 0
  ELSE With(CHOOSE p \in S : TRUE, LAMBDA p : p[2] + SumOfPairs(S \ {p}))

\* C18: each merge of build_htree removes two nodes with the two smallest
\* counts in the queue and inserts a node of character 257 whose count is
\* their sum, whose zero branch is the node removed first and whose one
\* branch the node removed second; in the final tree the count of every
\* inner node is the sum of the counts of its children and the count of
\* the root is the sum of the counts of the table.
C18_MergeTakesTwoSmallest ==
  (ret.op = "tree" /\ Pairs(ret.input) # {})
    => /\ \E st \in {MergeStates(LeafQueue(ret.input))} :
            /\ \A j \in 1..(Len(st) - 1) : MergeOk(st[j], st[j + 1])
            /\ st[Len(st)].nodes = ret.value.tree.nodes
       /\ \A i \in 1..Len(ret.value.tree.nodes) :
            \E n \in {ret.value.tree.nodes[i]} :
              n.character = NOT_A_CHAR
                => n.count = ret.value.tree.nodes[n.zero].count
                             + ret.value.tree.nodes[n.one].count
       /\ ret.value.tree.nodes[ret.value.tree.root].count = SumOfPairs(Pairs(ret.input))

\* a tree of three keys with the counts 1, 1 and 12: two merges, the root
\* counts 14
C18_Witness ==
  /\ ret.op = "tree" /\ ret.kind = "return"
  /\ Cardinality(Pairs(ret.input)) = 3
  /\ {p[2] : p \in Pairs(ret.input)} = {1, 12}
  /\ ret.value.merges = 2
  /\ ret.value.tree.nodes[ret.value.tree.root].count = SumOfPairs(Pairs(ret.input))

\* C19: for a table of n >= 1 entries buildEncodingTree ends after exactly
\* n - 1 merges with exactly one node in the priority queue, and returns
\* that node as the root.
C19_MergesUntilOneRoot ==
  (ret.op = "tree" /\ Pairs(ret.input) # {})
    => /\ ret.kind = "return"
       /\ ret.value.merges = Cardinality(Pairs(ret.input)) - 1
       /\ Len(ret.value.pq) = 1
       /\ ret.value.tree.root = ret.value.pq[1]
       /\ Len(ret.value.tree.nodes) = 2 * Cardinality(Pairs(ret.input)) - 1

\* a table of three entries: two merges, one node left
C19_Witness ==
  /\ ret.op = "tree" /\ ret.kind = "return"
  /\ Cardinality(Pairs(ret.input)) = 3
  /\ ret.value.merges = 2 /\ Len(ret.value.pq) = 1
  /\ ret.value.tree.root = 5

\* C20: the table read back from the header of a table that
\* buildFrequencyMap produced has the keys in the same order, and
\* buildEncodingTree gives for it the same tree: the same shape, leaves
\* and zero and one branches.
C20_ReadBackSameTree ==
  (ret.op = "read" /\ made.table # << >>)
    => /\ ret.kind = "ok"
       /\ keys(ret.value) = keys(ret.input)
       /\ buildEncodingTree(ret.value) = buildEncodingTree(ret.input)

\* a scanned table of three keys, two of them in one bucket, was read back
C20_Witness ==
  /\ ret.op = "read" /\ ret.kind = "ok" /\ made.table # << >>
  /\ Len(keys(ret.input)) = 3
  /\ \E i \in 1..2 : BucketOf(keys(ret.input)[i]) = BucketOf(keys(ret.input)[i + 1])
  /\ keys(ret.value) = keys(ret.input)
  /\ Len(buildEncodingTree(ret.value).nodes) = 5

(***************************************************************************)
(* Properties of the choices of the menu.                                  *)
(***************************************************************************)
\* C21: encode leaves the encoding map as it was: the entries after the
\* call are the entries before it.
C21_EncodeKeepsMap ==
  (ret.op = "4" /\ ret.kind = "return") => encodingMap = ret.input.map

\* how often the byte b occurs in bytes
Occurrences(bytes, b) == Cardinality({i \in 1..Len(bytes) : bytes[i] = b})

\* C23: buildFrequencyMap on an empty table leaves for every byte value b
\* the number of occurrences of b in the input as its count, no entry for a
\* b that does not occur, and the same table for a file and for a string
\* of the same bytes.
C23_CountsOccurrences ==
  ret.op = "1"
    => /\ \E P \in {Pairs(frequencyMap)} :
            \A b \in 0..255 :
              \E n \in {Occurrences(source.bytes, b)} :
                IF n = 0 THEN \A p \in P : p[1] # b ELSE << b, n >> \in P
       /\ frequencyMap = buildFrequencyMap(source.bytes, ~source.isFile, NewHashmap)

\* C25: for every sequence of the choices 1 to 6, the tree handed to
\* buildEncodingMap, to decode and to freeTree is a tree that exists and
\* has not been freed, no tree is freed twice, and buildEncodingTree is not
\* run on an empty table: none of these calls has undefined behaviour.
C25_MenuTreeSafe ==
  /\ ret.op \in {"2", "3", "5", "6"} => ret.kind # "undefined"
  /\ ret.op = "6" => encodingTree.root # NullPtr

(***************************************************************************)
(* The bit streams on their own: a header text is written to an            *)
(* obitstream, bits are written after it with writeBit, and an ibitstream  *)
(* over the bytes reads the header text with get() and the bits with       *)
(* readBit until it returns EOF.                                           *)
(***************************************************************************)
HeaderAt == << << >>, << ChOpen, ChClose >>,
               HeaderText(put(NewHashmap, PSEUDO_EOF, 1)) >>
Headers == {HeaderAt[i] : i \in 1..NumHeaders}

\* get() once for each byte of the header text
SkipHeader(in, text) == Loop(LAMBDA i, c : streamGet(i).in, in, text, 1)

\* output << header on a new obitstream
BitsOpen(header) ==
  /\ ret.op = "start"
  /\ ret' = Ret("open", "return",
                [out |-> streamWrite(NewObitstream, header), bits |-> << >>],
                header, FALSE)
  /\ UNCHANGED << charSigned, frequencyMap, encodingTree, encodingMap, source, disk, made >>

\* output.writeBit(bit)
BitsWrite(bit) ==
  /\ ret.op \in {"open", "writeBit"}
  /\ Len(ret.value.bits) < MaxBits
  /\ ret' = Ret("writeBit", "return",
                [out |-> writeBit(ret.value.out, bit),
                 bits |-> Append(ret.value.bits, bit)],
                ret.input, FALSE)
  /\ UNCHANGED << charSigned, frequencyMap, encodingTree, encodingMap, source, disk, made >>

\* an ibitstream over the bytes written, which first reads the header text
BitsReopen ==
  /\ ret.op \in {"open", "writeBit"}
  /\ ret' = Ret("get", "return",
                [in |-> SkipHeader(NewIbitstream(ret.value.out.buf), ret.input),
                 bits |-> ret.value.bits, read |-> << >>],
                ret.input, FALSE)
  /\ UNCHANGED << charSigned, frequencyMap, encodingTree, encodingMap, source, disk, made >>

\* input.readBit(), until it has returned EOF
BitsRead ==
  /\ ret.op \in {"get", "readBit"}
  /\ IF ret.value.read = << >> THEN TRUE
                               ELSE ret.value.read[Len(ret.value.read)] # EOF
  /\ \E r \in {readBit(ret.value.in)} :
       ret' = Ret("readBit", "return",
                  [in |-> r.in, bits |-> ret.value.bits,
                   read |-> Append(ret.value.read, r.bit)],
                  ret.input, r.bit = EOF)
  /\ UNCHANGED << charSigned, frequencyMap, encodingTree, encodingMap, source, disk, made >>

InitBits == InitProgram({<< >>})

NextBits ==
  \/ \E header \in Headers : BitsOpen(header)
  \/ \E bit \in {0, 1} : BitsWrite(bit)
  \/ BitsReopen
  \/ BitsRead

SpecBits == InitBits /\ [][NextBits]_vars

\* the number of bits of the bytes that hold n bits
WholeBytes(n) == NUM_BITS_IN_BYTE * ((n + NUM_BITS_IN_BYTE - 1) \div NUM_BITS_IN_BYTE)

\* C22: after a header text and the bits b1..bn are written, a reader that
\* has read the header text gets b1..bn, in order, from its first n calls
\* of readBit, and gets EOF only after all bits of the last byte.
C22_BitRoundTrip ==
  ret.op \in {"get", "readBit"}
    => \E n \in {Len(ret.value.bits)} :
         \A k \in 1..Len(ret.value.read) :
           /\ k <= n => ret.value.read[k] = ret.value.bits[k]
           /\ ret.value.read[k] = EOF => k > WholeBytes(n)

C22_Witness ==
  /\ ret.op = "readBit"
  /\ ret.input # << >>
  /\ Len(ret.value.bits) = 9
  /\ ret.value.bits[9] = 1
  /\ \E i, j \in 1..8 : ret.value.bits[i] = 0 /\ ret.value.bits[j] = 1
  /\ Len(ret.value.read) = 17
  /\ ret.value.read[17] = EOF

(***************************************************************************)
(* Choice D on a .huf file that compress did not write: the file holds the *)
(* header of some table and some bytes after it.                           *)
(***************************************************************************)
\* the tables that one or two calls of put make, and the empty one
ForeignTables ==
  {NewHashmap}
    \cup {put(NewHashmap, k, v) : k \in PutKeys, v \in PutValues}
    \cup {put(put(NewHashmap, k[1], v[1]), k[2], v[2]) :
            k \in PutKeys \X PutKeys, v \in PutValues \X PutValues}

\* a file named at choice D: ifbitstream bs(filename)
ForeignFile(table, payload) ==
  /\ ~disk.written
  /\ \E text \in {HeaderText(table)} :
       disk' = [written |-> TRUE, src |-> << >>, file |-> text \o payload,
                headerLen |-> Len(text), damage |-> "foreign"]
  /\ ret' = Ret("file", "return", payload, table, FALSE)
  /\ UNCHANGED << charSigned, frequencyMap, encodingTree, encodingMap, source, made >>

InitForeign == InitProgram({<< >>})

NextForeign ==
  \/ \E table \in ForeignTables, payload \in SeqsUpTo(Alphabet, PayloadLen) :
       ForeignFile(table, payload)
  \/ Decompress

SpecForeign == InitForeign /\ [][NextForeign]_vars

\* the table that decompress reads from the header of a file
TableOf(file) == ReadHeader(NewIbitstream(file), NewHashmap).map

\* C24: for every tree that buildEncodingTree makes of a table that is not
\* empty, a table without the key 256 or with one entry included, and
\* every sequence of bits, decode ends and the node it looks at is never
\* null.
C24_DecodeNeverNull ==
  (ret.op = "decompress" /\ Pairs(TableOf(disk.file)) # {})
    => ret.kind # "undefined"

=============================================================================
